---- MODULE Spec2Model ----
(***************************************************************************)
(* GRANDPA parachain light client (light-clients/ics10-grandpa).           *)
(*                                                                         *)
(* The model follows client_def.rs: the ClientDef operations of            *)
(* GrandpaClient act on a client state, on the consensus states the host   *)
(* has stored and on the host's set of known relay header hashes.          *)
(*                                                                         *)
(* Widths are scaled: a u32 is a number in 0..U32Max and a timestamp a     *)
(* number in 1..TimestampMax, with the arithmetic of the code (wrapping or *)
(* aborting u32 addition, checked timestamp addition) kept at that width.  *)
(***************************************************************************)
EXTENDS Integers, Sequences, FiniteSets, TLC

\* ------------------------------------------------------------------ bounds

\* Largest value of a u32 in the model (the code's u32::MAX, scaled).
U32Max == 15
\* Largest timestamp the Timestamp type can hold (scaled).
TimestampMax == 3
\* AUTHORITIES_CHANGE_ITEM_MIN_COUNT, scaled so that a ledger can outgrow it.
AUTHORITIES_CHANGE_ITEM_MIN_COUNT == 2
\* AUTHORITIES_CHANGE_ITEM_LIFETIME, in the model's time unit.
AUTHORITIES_CHANGE_ITEM_LIFETIME == 1
\* Longest ledger a client starts with.
MaxInitLedger == 1
\* Most headers in finality_proof.unknown_headers of one message.
MaxUnknownHeaders == 2
\* Largest revision height of a client state the contract wrapper is given.
MaxRevisionHeight == 2

\* Option<T>: None, Some(x).
None == <<>>
Some(x) == <<x>>
IsSome(o) == o # <<>>
Unwrap(o) == o[1]

U32Modulus == U32Max + 1

Min(a, b) == IF a <= b THEN a ELSE b

\* Parachain ids: the client of the model follows parachain 1.

\* ------------------------------------------------- relay chain headers

\* A relay chain header, named by its hash.  number, parent_hash and the
\* digest (a scheduled change with its delay, a forced change, or none) are
\* the fields the client reads; para_head is the parachain head committed
\* under the header's state_root, which a valid parachain header proof
\* against that root yields.
NoChange == [kind |-> "none", delay |-> 0, next_authorities |-> "-"]
Scheduled(d, a) == [kind |-> "scheduled", delay |-> d, next_authorities |-> a]
Forced == [kind |-> "forced", delay |-> 0, next_authorities |-> "F"]

Hdr(n, p, d, ph, pr) ==
    [number |-> n, parent_hash |-> p, digest |-> d,
     para_head |-> [number |-> ph, root |-> pr]]

\* Two regions: a chain g <- a1 <- a2 <- a3 <- a4 with a fork b2 <- b3 off
\* a1, whose parachain heads contradict the chain's and go backwards, a
\* second child c4 of a3 that announces no change, a
\* header w2 whose number field lies upwards and a header l2 whose number
\* field lies downwards; and a chain m <- m1 <- m2 at the top of the u32
\* range, with a second child n1 of m whose number field is 0.
RelayHeaders ==
    [h \in {"g", "a1", "a2", "a3", "a4", "b2", "b3", "c4", "w2", "l2", "m", "m1",
              "m2", "n1"} |->
        CASE h = "g"  -> Hdr(2, "p", NoChange, 1, "r1")
          [] h = "a1" -> Hdr(3, "g", NoChange, 2, "r2")
          [] h = "a2" -> Hdr(4, "a1", Scheduled(1, "A"), 2, "r2")
          [] h = "a3" -> Hdr(5, "a2", Scheduled(0, "B"), 3, "r3")
          [] h = "a4" -> Hdr(6, "a3", Scheduled(0, "C"), 4, "r4")
          [] h = "b2" -> Hdr(4, "a1", Forced, 3, "x3")
          [] h = "b3" -> Hdr(5, "b2", NoChange, 2, "x2")
          [] h = "c4" -> Hdr(6, "a3", NoChange, 4, "r4")
          [] h = "w2" -> Hdr(7, "a1", NoChange, 3, "r3")
          [] h = "l2" -> Hdr(1, "a1", NoChange, 3, "r3")
          [] h = "m"  -> Hdr(U32Max - 1, "q", NoChange, 1, "r1")
          [] h = "m1" -> Hdr(U32Max, "m", Scheduled(U32Max, "D"), 2, "r2")
          [] h = "m2" -> Hdr(0, "m1", Scheduled(0, "E"), 3, "r3")
          [] h = "n1" -> Hdr(0, "m", NoChange, 2, "x2")]

Hashes == DOMAIN RelayHeaders

\* The order of H256 values, which is the iteration order of the
\* parachain_headers map.
HashOrder ==
    <<"a1", "a2", "a3", "a4", "b2", "b3", "c4", "g", "l2", "m", "m1", "m2", "n1",
      "w2">>
HashRank(h) == CHOOSE i \in 1..Len(HashOrder) : HashOrder[i] = h

\* ------------------------------------------------------ AncestryChain

\* AncestryChain::new(&unknown_headers): the headers indexed by hash.
\* header(hash) is Some(header) for a hash of the batch and None otherwise.
header(unknown_headers, hash) ==
    IF hash \in unknown_headers THEN Some(RelayHeaders[hash]) ELSE None

\* ancestry(base, block): the route from block back to base along the
\* parent hashes, block first and base last; an error (None) when a hash on
\* the way has no header in the batch.  The route holds both ends, which is
\* what makes base_number + route.len() - 1 the number of block.
RECURSIVE Walk(_, _, _, _)
Walk(unknown_headers, base, current_hash, route) ==
    IF current_hash = base THEN Some(route)
    ELSE IF current_hash \notin unknown_headers THEN None
    ELSE LET parent == RelayHeaders[current_hash].parent_hash
         IN  Walk(unknown_headers, base, parent, Append(route, parent))

ancestry(unknown_headers, base, block) ==
    Walk(unknown_headers, base, block, <<block>>)

Range(s) == {s[i] : i \in 1..Len(s)}

\* find_scheduled_change(header), find_forced_change(header): the change a
\* header's digest announces.
find_scheduled_change(h) ==
    IF h.digest.kind = "scheduled" THEN Some(h.digest) ELSE None

find_forced_change(h) ==
    IF h.digest.kind = "forced" THEN Some(h.digest) ELSE None

\* ConsensusState::from_header(proof, para_id, state_root): the parachain
\* head stored under the relay header's state root, as (height, consensus
\* state), when the proof proves it and the head is this parachain's; an
\* error otherwise.  A consensus state is named by its commitment root.
Height(revision_number, revision_height) ==
    [revision_number |-> revision_number, revision_height |-> revision_height]

\* Height order: by revision_number, then by revision_height.
HeightLess(a, b) ==
    \/ a.revision_number < b.revision_number
    \/ a.revision_number = b.revision_number /\ a.revision_height < b.revision_height

HeightLeq(a, b) == a = b \/ HeightLess(a, b)

\* client_state.latest_height()
latest_height(client_state) ==
    Height(client_state.para_id, client_state.latest_para_height)

from_header(proof, para_id, relay_header) ==
    IF proof = "valid" /\ para_id = 1
    THEN Some(<<Height(para_id, relay_header.para_head.number),
                relay_header.para_head.root>>)
    ELSE None

\* ------------------------------------------------------------ arithmetic

\* u32 addition and subtraction.  A build with overflow checks aborts on
\* overflow, a build without them wraps: Wraps(x) says whether x leaves the
\* range, U32(x) is the wrapped value.
Wraps(x) == x < 0 \/ x > U32Max
U32(x) == x % U32Modulus

\* Timestamp + Duration: an error (None) when the sum leaves the range.
timestamp_add(timestamp, duration) ==
    IF timestamp + duration > TimestampMax THEN None ELSE Some(timestamp + duration)

\* now.check_expiry(&other): Expired when now is past other.
check_expiry(now, other) == IF now > other THEN "Expired" ELSE "NotExpired"

\* -------------------------------------------------- authority-set ledger

AuthoritiesChange(height, timestamp, set_id, authorities) ==
    [height |-> height, timestamp |-> timestamp, set_id |-> set_id,
     authorities |-> authorities]

\* client_state.last_set_id(): the set id of the last entry of the ledger.
last_set_id(authorities_changes) ==
    authorities_changes[Len(authorities_changes)].set_id

\* A filter that keeps an entry by its expiry time alone.
keep_change_by_age(len, i, x, now) ==
    LET sum == timestamp_add(x.timestamp, AUTHORITIES_CHANGE_ITEM_LIFETIME)
        expiry == IF IsSome(sum) THEN Unwrap(sum) ELSE 1
    IN  check_expiry(now, expiry) # "Expired"

\* The filter of update_state: entry x at index i (from 0) of a ledger of
\* len entries is kept when it is among the last MIN_COUNT - 1 entries or
\* when its expiry time, timestamp + LIFETIME, is not past; an expiry time
\* that overflows is replaced by the timestamp 1.
keep_change(len, i, x, now) ==
    \/ len - i < AUTHORITIES_CHANGE_ITEM_MIN_COUNT
    \/ LET sum == timestamp_add(x.timestamp, AUTHORITIES_CHANGE_ITEM_LIFETIME)
           expiry == IF IsSome(sum) THEN Unwrap(sum) ELSE 1
       IN  check_expiry(now, expiry) # "Expired"

RECURSIVE FilterChanges(_, _, _)
FilterChanges(authorities_changes, i, now) ==
    IF i >= Len(authorities_changes) THEN <<>>
    ELSE LET x == authorities_changes[i + 1]
             rest == FilterChanges(authorities_changes, i + 1, now)
         IN  IF keep_change(Len(authorities_changes), i, x, now)
             THEN <<x>> \o rest ELSE rest

\* xs.sort_by_key(|change| change.height): a stable sort.
RECURSIVE sort_by_height(_)
sort_by_height(xs) ==
    IF xs = <<>> THEN <<>>
    ELSE LET n == Len(xs)
             front == sort_by_height(SubSeq(xs, 1, n - 1))
             k == Cardinality({j \in 1..Len(front) : front[j].height <= xs[n].height})
         IN  SubSeq(front, 1, k) \o <<xs[n]>> \o SubSeq(front, k + 1, Len(front))

\* ------------------------------------------------------------ update_state

\* The keys of a map in iteration order.
RECURSIVE InOrder(_)
InOrder(S) ==
    IF S = {} THEN <<>>
    ELSE LET first == CHOOSE h \in S : \A k \in S : HashRank(h) <= HashRank(k)
         IN  <<first>> \o InOrder(S \ {first})

\* An error returned after a hash has been inserted into the known set.
Err_inserting(e, client_state) ==
    [ok |-> FALSE, error |-> e, client_state |-> client_state,
     consensus_states |-> <<>>, finalized |-> <<"w2">>]

\* An error of update_state: returned before anything is inserted.
Err(e, client_state) ==
    [ok |-> FALSE, error |-> e, client_state |-> client_state,
     consensus_states |-> <<>>, finalized |-> <<>>]

\* A loop that derives a consensus state from every proof of the message,
\* on the finalized route or not, against the header its key names.
RECURSIVE collect_consensus_states_all_keys(_, _, _, _, _, _)
collect_consensus_states_all_keys(keys, msg, finalized, para_id, stored, acc) ==
    IF keys = <<>> THEN [error |-> "", consensus_states |-> acc]
    ELSE LET relay_hash == Head(keys)
             rest == Tail(keys)
             derived == from_header(msg.parachain_headers[relay_hash], para_id,
                                    RelayHeaders[relay_hash])
         IN  IF ~IsSome(derived)
             THEN [error |-> "InvalidProof", consensus_states |-> acc]
             ELSE IF Unwrap(derived)[1] \in DOMAIN stored
             THEN collect_consensus_states_all_keys(rest, msg, finalized, para_id,
                                                    stored, acc)
             ELSE collect_consensus_states_all_keys(rest, msg, finalized, para_id,
                                                    stored, Append(acc, Unwrap(derived)))

\* A loop that accumulates a derived consensus state also when the host
\* stores one at its height.
RECURSIVE collect_consensus_states_no_skip(_, _, _, _, _, _)
collect_consensus_states_no_skip(keys, msg, finalized, para_id, stored, acc) ==
    IF keys = <<>> THEN [error |-> "", consensus_states |-> acc]
    ELSE LET relay_hash == Head(keys)
             rest == Tail(keys)
             hdr == header(msg.finality_proof.unknown_headers, relay_hash)
             derived == from_header(msg.parachain_headers[relay_hash], para_id,
                                    Unwrap(hdr))
         IN  IF relay_hash \notin Range(finalized)
             THEN collect_consensus_states_no_skip(rest, msg, finalized, para_id,
                                                   stored, acc)
             ELSE IF ~IsSome(hdr)
             THEN [error |-> "MissingHeader", consensus_states |-> acc]
             ELSE IF ~IsSome(derived)
             THEN [error |-> "InvalidProof", consensus_states |-> acc]
             ELSE collect_consensus_states_no_skip(rest, msg, finalized, para_id,
                                                   stored, Append(acc, Unwrap(derived)))

\* The loop over header.parachain_headers: for every proof keyed by a hash
\* of the finalized route, the consensus state it derives, unless the host
\* already stores one at that height.  The result is the error of the first
\* proof that fails, or the accumulated consensus_states.
RECURSIVE collect_consensus_states(_, _, _, _, _, _)
collect_consensus_states(keys, msg, finalized, para_id, stored, acc) ==
    IF keys = <<>> THEN [error |-> "", consensus_states |-> acc]
    ELSE LET relay_hash == Head(keys)
             rest == Tail(keys)
             hdr == header(msg.finality_proof.unknown_headers, relay_hash)
             derived == from_header(msg.parachain_headers[relay_hash], para_id,
                                    Unwrap(hdr))
         IN  IF relay_hash \notin Range(finalized)
             THEN collect_consensus_states(rest, msg, finalized, para_id, stored, acc)
             ELSE IF ~IsSome(hdr)
             THEN [error |-> "MissingHeader", consensus_states |-> acc]
             ELSE IF ~IsSome(derived)
             THEN [error |-> "InvalidProof", consensus_states |-> acc]
             ELSE IF Unwrap(derived)[1] \in DOMAIN stored
             THEN collect_consensus_states(rest, msg, finalized, para_id, stored, acc)
             ELSE collect_consensus_states(rest, msg, finalized, para_id, stored,
                                           Append(acc, Unwrap(derived)))

\* The ledger after a scheduled change found in the target header: the
\* entries the filter keeps, the new entry, sorted by height.
insert_scheduled(authorities_changes, height, scheduled_change, now) ==
    sort_by_height(
        Append(FilterChanges(authorities_changes, 0, now),
               AuthoritiesChange(height, now,
                                 last_set_id(authorities_changes) + 1,
                                 scheduled_change.next_authorities)))

\* A number check that accepts every target number.
unexpected_block_number_never(expected_target_height, target_number) == FALSE

\* "unexpected block number": the check of the target's number against
\* latest_relay_height + finalized.len() - 1.
unexpected_block_number(expected_target_height, target_number) ==
    expected_target_height # target_number

\* "can't try to rewind relay chain": the check on the target's number.
rewinds_relay_chain(target_number, latest_relay_height) ==
    target_number <= latest_relay_height

\* A check that lets every parachain height through.
rewinds_parachain_never(min_height, latest_para_height) == FALSE

\* "can't try to rewind parachain": the check on the least new height.
rewinds_parachain(min_height, latest_para_height) ==
    min_height <= latest_para_height

\* update_state(ctx, client_id, client_state, Header(msg)).  stored is the
\* host's consensus states of the client, now the host timestamp and
\* overflow_checks the build's treatment of integer overflow.
update_state(client_state, msg, stored, now, overflow_checks) ==
    LET unknown_headers == msg.finality_proof.unknown_headers
        block == msg.finality_proof.block
        route == ancestry(unknown_headers, client_state.latest_relay_hash, block)
        finalized == Unwrap(route)
        loop == collect_consensus_states(InOrder(DOMAIN msg.parachain_headers), msg,
                                         finalized, client_state.para_id, stored, <<>>)
        consensus_states == loop.consensus_states
        target == header(unknown_headers, block)
        sum == client_state.latest_relay_height + Len(finalized)
        expected_target_height == U32(U32(sum) - 1)
        heights == {consensus_states[i][1].revision_height :
                        i \in 1..Len(consensus_states)}
        min_height == CHOOSE x \in heights : \A y \in heights : x <= y
        max_height == CHOOSE x \in heights : \A y \in heights : x >= y
        scheduled_change == find_scheduled_change(Unwrap(target))
        change_sum == Unwrap(target).number + Unwrap(scheduled_change).delay
        change_height == U32(U32(change_sum) + 1)
        updated ==
            [client_state EXCEPT
                !.latest_para_height =
                    IF heights = {} THEN client_state.latest_para_height ELSE max_height,
                !.latest_relay_hash = block,
                !.latest_relay_height = Unwrap(target).number,
                !.authorities_changes =
                    IF IsSome(scheduled_change)
                    THEN insert_scheduled(client_state.authorities_changes,
                                          change_height, Unwrap(scheduled_change), now)
                    ELSE client_state.authorities_changes]
    IN  IF ~IsSome(route) THEN Err("InvalidAncestry", client_state)
        ELSE IF loop.error # "" THEN Err(loop.error, client_state)
        ELSE IF ~IsSome(target) THEN Err("Panic", client_state)
        ELSE IF overflow_checks /\ (Wraps(sum) \/ Wraps(U32(sum) - 1))
        THEN Err("Panic", client_state)
        ELSE IF unexpected_block_number(expected_target_height, Unwrap(target).number)
        THEN Err("HeightMismatch", client_state)
        ELSE IF rewinds_relay_chain(Unwrap(target).number,
                                    client_state.latest_relay_height)
        THEN Err("RelayHeightRegression", client_state)
        ELSE IF heights # {}
                /\ rewinds_parachain(min_height, client_state.latest_para_height)
        THEN Err("ParaHeightRegression", client_state)
        ELSE IF IsSome(scheduled_change) /\ overflow_checks
                /\ (Wraps(change_sum) \/ Wraps(U32(change_sum) + 1))
        THEN Err("Panic", client_state)
        ELSE [ok |-> TRUE, error |-> "", client_state |-> updated,
              consensus_states |-> consensus_states, finalized |-> finalized]

\* -------------------------------------------- update_state_on_misbehaviour

\* A freeze that lifts the freeze of a frozen client.
update_state_on_misbehaviour_toggle(client_state) ==
    [client_state EXCEPT
        !.frozen_height =
            IF IsSome(client_state.frozen_height) THEN None
            ELSE Some(Height(client_state.para_id, client_state.latest_para_height))]

\* A freeze that also drops all but the last entry of the ledger.
update_state_on_misbehaviour_pruning(client_state) ==
    [client_state EXCEPT
        !.frozen_height =
            Some(Height(client_state.para_id, client_state.latest_para_height)),
        !.authorities_changes =
            <<client_state.authorities_changes[Len(client_state.authorities_changes)]>>]

\* A freeze at the relay chain height.
update_state_on_misbehaviour_relay(client_state) ==
    [client_state EXCEPT
        !.frozen_height =
            Some(Height(client_state.para_id, client_state.latest_relay_height))]

update_state_on_misbehaviour(client_state) ==
    [client_state EXCEPT
        !.frozen_height =
            Some(Height(client_state.para_id, client_state.latest_para_height))]

\* ---------------------------------------------------- check_for_misbehaviour

\* A loop that finds no misbehaviour in any header.
check_parachain_headers_blind(keys, msg, para_id, stored) ==
    [ok |-> TRUE, error |-> "", value |-> FALSE]

\* The loop of check_for_misbehaviour over header.parachain_headers, in key
\* order: Ok(true) at the first keyed relay header with a forced change or
\* with a derived consensus state that differs from the stored one, an
\* error at the first key without a header or with a proof that fails.
RECURSIVE check_parachain_headers(_, _, _, _)
check_parachain_headers(keys, msg, para_id, stored) ==
    IF keys = <<>> THEN [ok |-> TRUE, error |-> "", value |-> FALSE]
    ELSE LET relay_hash == Head(keys)
             hdr == header(msg.finality_proof.unknown_headers, relay_hash)
             derived == from_header(msg.parachain_headers[relay_hash], para_id,
                                    Unwrap(hdr))
             height == Unwrap(derived)[1]
             consensus_state == Unwrap(derived)[2]
         IN  IF ~IsSome(hdr)
             THEN [ok |-> FALSE, error |-> "MissingHeader", value |-> FALSE]
             ELSE IF IsSome(find_forced_change(Unwrap(hdr)))
             THEN [ok |-> TRUE, error |-> "", value |-> TRUE]
             ELSE IF ~IsSome(derived)
             THEN [ok |-> FALSE, error |-> "InvalidProof", value |-> FALSE]
             ELSE IF height \in DOMAIN stored /\ stored[height] # consensus_state
             THEN [ok |-> TRUE, error |-> "", value |-> TRUE]
             ELSE check_parachain_headers(Tail(keys), msg, para_id, stored)

\* A check that reports a misbehaviour message only when its first proof is
\* for the lower block.
check_for_misbehaviour_ordered(client_state, client_message, stored) ==
    IF client_message.type = "Misbehaviour"
    THEN [ok |-> TRUE, error |-> "",
          value |-> RelayHeaders[client_message.first_finality_proof.block].number
                      < RelayHeaders[client_message.second_finality_proof.block].number]
    ELSE check_parachain_headers(InOrder(DOMAIN client_message.parachain_headers),
                                 client_message, client_state.para_id, stored)

\* check_for_misbehaviour(ctx, client_id, client_state, client_message)
check_for_misbehaviour(client_state, client_message, stored) ==
    IF client_message.type = "Misbehaviour"
    THEN [ok |-> TRUE, error |-> "", value |-> TRUE]
    ELSE check_parachain_headers(InOrder(DOMAIN client_message.parachain_headers),
                                 client_message, client_state.para_id, stored)

\* ------------------------------------------------- verify_client_message

\* authorities_changes.binary_search_by_key(&height, |x| x.height) followed by
\* unwrap_or_else(identity): the index (from 0) of an entry of that height
\* or, when there is none, the index at which one would be inserted.  Of
\* several entries of the same height the search may return any; tie says
\* whether the build's search returns the first or the last of them.
binary_search_by_key(authorities_changes, height, tie) ==
    LET len == Len(authorities_changes)
        found == {i \in 0..len - 1 : authorities_changes[i + 1].height = height}
        below == {i \in 0..len - 1 : authorities_changes[i + 1].height < height}
    IN  IF found = {} THEN Cardinality(below)
        ELSE IF tie = "first" THEN CHOOSE i \in found : \A j \in found : i <= j
        ELSE CHOOSE i \in found : \A j \in found : i >= j

\* The closure get_authorities of verify_client_message: the entry at the
\* index the search returns or, when the index is past the end, the last
\* entry.
get_authorities(authorities_changes, height, tie) ==
    LET key == binary_search_by_key(authorities_changes, height, tie)
    IN  IF key < Len(authorities_changes)
        THEN authorities_changes[key + 1]
        ELSE authorities_changes[Len(authorities_changes)]

\* justification.verify::<H>(set_id, authorities): the precommits are those
\* of the authority set and are signed for the set id.
justification_verify(justification, set_id, authorities) ==
    justification.set_id = set_id /\ justification.authorities = authorities

\* The header of greatest and of least number of a batch.
max_by_number(unknown_headers) ==
    CHOOSE h \in unknown_headers :
        \A k \in unknown_headers : RelayHeaders[k].number <= RelayHeaders[h].number

min_by_number(unknown_headers) ==
    CHOOSE h \in unknown_headers :
        \A k \in unknown_headers : RelayHeaders[h].number <= RelayHeaders[k].number

\* first_finalized.iter().zip(&second_finalized).any(|(a, b)| a != b)
chain_diverges(first_finalized, second_finalized) ==
    \E i \in 1..Min(Len(first_finalized), Len(second_finalized)) :
        first_finalized[i] # second_finalized[i]

MisbehaviourResult(error, lookups) ==
    [ok |-> error = "", error |-> error, lookups |-> lookups]

\* The loop over the candidate base numbers: the heights looked up, the
\* authority sets found and whether both justifications verify under them.
\* lookups collects what get_authorities was asked and what it returned.
RECURSIVE try_base_numbers(_, _, _, _, _, _, _, _, _)
try_base_numbers(base_numbers, authorities_changes, first_len, second_len, first_justification, second_justification, tie, overflow_checks, lookups) ==
    IF base_numbers = <<>> THEN MisbehaviourResult("InvalidJustification", lookups)
    ELSE LET base_number == Head(base_numbers)
             first_sum == base_number + first_len
             second_sum == base_number + second_len
             first_height == U32(U32(first_sum) - 1)
             second_height == U32(U32(second_sum) - 1)
             first_change == get_authorities(authorities_changes, first_height, tie)
             second_change == get_authorities(authorities_changes, second_height, tie)
             first_valid == justification_verify(first_justification,
                                first_change.set_id, first_change.authorities)
             second_valid == justification_verify(second_justification,
                                second_change.set_id, second_change.authorities)
             looked == lookups \cup {[height |-> first_height, change |-> first_change],
                                     [height |-> second_height, change |-> second_change]}
         IN  IF overflow_checks /\ (Wraps(first_sum) \/ Wraps(second_sum))
             THEN MisbehaviourResult("Panic", lookups)
             ELSE IF first_valid /\ second_valid
             THEN MisbehaviourResult("", looked)
             ELSE try_base_numbers(Tail(base_numbers), authorities_changes,
                                   first_len, second_len, first_justification,
                                   second_justification, tie, overflow_checks, looked)

\* A host that knows every hash.
contains_relay_header_hash_any(known, hash) == TRUE

\* H::contains_relay_header_hash(hash)
contains_relay_header_hash(known, hash) == hash \in known

\* verify_client_message(ctx, client_id, client_state, Misbehaviour(m)).
\* known is the host's set of known relay header hashes.
verify_misbehaviour(client_state, known, misbehaviour, tie, overflow_checks) ==
    LET first_proof == misbehaviour.first_finality_proof
        second_proof == misbehaviour.second_finality_proof
        first_target == max_by_number(first_proof.unknown_headers)
        second_target == max_by_number(second_proof.unknown_headers)
        first_base == min_by_number(first_proof.unknown_headers)
        second_base == min_by_number(second_proof.unknown_headers)
        first_finalized == ancestry(first_proof.unknown_headers, first_base, first_target)
        second_finalized == ancestry(second_proof.unknown_headers, second_base,
                                     second_target)
        first_parent == RelayHeaders[first_base].parent_hash
        second_parent == RelayHeaders[second_base].parent_hash
        first_justification == first_proof.justification
        second_justification == second_proof.justification
        base_numbers ==
            IF RelayHeaders[first_base].number = RelayHeaders[second_base].number
            THEN <<RelayHeaders[first_base].number>>
            ELSE <<RelayHeaders[first_base].number, RelayHeaders[second_base].number>>
    IN  IF first_proof.block = second_proof.block
        THEN MisbehaviourResult("SameBlock", {})
        ELSE IF first_proof.unknown_headers = {} \/ second_proof.unknown_headers = {}
        THEN MisbehaviourResult("EmptyUnknownHeaders", {})
        ELSE IF first_target # first_proof.block \/ second_target # second_proof.block
        THEN MisbehaviourResult("NotSameChain", {})
        ELSE IF ~IsSome(first_finalized) \/ ~IsSome(second_finalized)
        THEN MisbehaviourResult("InvalidAncestry", {})
        ELSE IF first_parent # second_parent
        THEN MisbehaviourResult("NotSameAncestor", {})
        ELSE IF ~chain_diverges(Unwrap(first_finalized), Unwrap(second_finalized))
        THEN MisbehaviourResult("ChainsShouldDiverge", {})
        ELSE IF ~contains_relay_header_hash(known, first_parent)
        THEN MisbehaviourResult("UnknownParent", {})
        ELSE IF ~IsSome(first_justification) \/ ~IsSome(second_justification)
        THEN MisbehaviourResult("UndecodableJustification", {})
        ELSE IF \/ first_proof.block # Unwrap(first_justification).target_hash
                \/ second_proof.block # Unwrap(second_justification).target_hash
        THEN MisbehaviourResult("TargetHashMismatch", {})
        ELSE try_base_numbers(base_numbers, client_state.authorities_changes,
                              Len(Unwrap(first_finalized)), Len(Unwrap(second_finalized)),
                              Unwrap(first_justification), Unwrap(second_justification),
                              tie, overflow_checks, {})

\* ----------------------------------------- verify_upgrade_and_update_state

\* Ctx::AnyClientState::wrap(x).encode_to_vec(), and the same for a consensus
\* state: the bytes of an Any that holds the encoded state.
encode_to_vec(type_url, state) == <<"Any", type_url, <<"bytes", state>>>>

\* Any::decode(bytes): the Any that the bytes encode, if they encode one.
decode_any(bytes) ==
    IF Len(bytes) = 3 /\ bytes[1] = "Any"
    THEN Some([type_url |-> bytes[2], value |-> bytes[3]])
    ELSE None

\* An upgrade proof: None for bytes that do not decode into trie nodes,
\* otherwise the root the nodes hash to and the value they hold under the
\* upgrade path (None when they hold none).
StorageProof(root, value) == [root |-> root, value |-> value]

\* The check of one upgrade proof: decode the nodes, read the value under the
\* path against root, decode it as an Any, and compare that Any's value with
\* the encoded state.
verify_upgrade_proof(root, proof, encoded) ==
    IF ~IsSome(proof) THEN "Codec"
    ELSE IF Unwrap(proof).root # root THEN "ReadProofCheck"
    ELSE IF ~IsSome(Unwrap(proof).value) THEN "InvalidProof"
    ELSE IF ~IsSome(decode_any(Unwrap(Unwrap(proof).value))) THEN "InvalidProofDecode"
    ELSE IF Unwrap(decode_any(Unwrap(Unwrap(proof).value))).value # encoded
    THEN "ValuesNotEqual"
    ELSE ""

\* A result whose client state is frozen at its latest height.
UpgradeResult_frozen(error, client_state, consensus_state) ==
    [ok |-> error = "", error |-> error,
     client_state |-> [client_state EXCEPT
                          !.frozen_height = Some(latest_height(client_state))],
     consensus_state |-> consensus_state]

UpgradeResult(error, client_state, consensus_state) ==
    [ok |-> error = "", error |-> error, client_state |-> client_state,
     consensus_state |-> consensus_state]

\* verify_upgrade_and_update_state(ctx, client_id, old_client_state,
\* upgrade_client_state, upgrade_consensus_state, proof_upgrade_client,
\* proof_upgrade_consensus_state); stored is the host's consensus states.
verify_upgrade_and_update_state(old_client_state, upgrade_client_state, upgrade_consensus_state, proof_upgrade_client, proof_upgrade_consensus_state, stored) ==
    LET height == latest_height(old_client_state)
        root == stored[height]
        client_error ==
            verify_upgrade_proof(root, proof_upgrade_client,
                encode_to_vec("ClientState", upgrade_client_state))
        consensus_error ==
            verify_upgrade_proof(root, proof_upgrade_consensus_state,
                encode_to_vec("ConsensusState", upgrade_consensus_state))
        mixed_upgrade_client_state ==
            [relay_chain |-> old_client_state.relay_chain,
             latest_relay_height |-> upgrade_client_state.latest_relay_height,
             latest_relay_hash |-> upgrade_client_state.latest_relay_hash,
             frozen_height |-> None,
             latest_para_height |-> upgrade_client_state.latest_para_height,
             para_id |-> upgrade_client_state.para_id,
             authorities_changes |-> upgrade_client_state.authorities_changes]
    IN  IF HeightLeq(latest_height(upgrade_client_state), height)
        THEN UpgradeResult("HeightNotGreater", old_client_state, None)
        ELSE IF height \notin DOMAIN stored
        THEN UpgradeResult("ConsensusStateNotFound", old_client_state, None)
        ELSE IF client_error # ""
        THEN UpgradeResult(client_error, old_client_state, None)
        ELSE IF consensus_error # ""
        THEN UpgradeResult(consensus_error, old_client_state, None)
        ELSE UpgradeResult("", mixed_upgrade_client_state,
                           Some(upgrade_consensus_state))

\* ----------------------------------------------------- membership checks

\* client_state.verify_height(height): rejects a height ahead of the latest
\* one and any height when the client is frozen.
verify_height(client_state, height) ==
    IF HeightLess(latest_height(client_state), height) THEN "InsufficientHeight"
    ELSE IF IsSome(client_state.frozen_height) THEN "FrozenClient"
    ELSE ""

\* The verifications of a stored value: verify_height, then the proof.
\* proof_ok is the outcome of verify_membership on the call's path, value,
\* proof and root.
Verified(error) == [ok |-> error = "", error |-> error]

verify_client_consensus_state(client_state, height, proof_ok) ==
    IF verify_height(client_state, height) # ""
    THEN Verified(verify_height(client_state, height))
    ELSE IF ~proof_ok THEN Verified("InvalidProof") ELSE Verified("")

verify_connection_state(client_state, height, proof_ok) ==
    IF verify_height(client_state, height) # ""
    THEN Verified(verify_height(client_state, height))
    ELSE IF ~proof_ok THEN Verified("InvalidProof") ELSE Verified("")

verify_channel_state(client_state, height, proof_ok) ==
    IF verify_height(client_state, height) # ""
    THEN Verified(verify_height(client_state, height))
    ELSE IF ~proof_ok THEN Verified("InvalidProof") ELSE Verified("")

verify_client_full_state(client_state, height, proof_ok) ==
    IF verify_height(client_state, height) # ""
    THEN Verified(verify_height(client_state, height))
    ELSE IF ~proof_ok THEN Verified("InvalidProof") ELSE Verified("")

\* The verifications of a packet: verify_height, then verify_delay_passed
\* (delay_passed is its outcome for the height and the connection), then
\* the proof.
\* A verify_packet_data that checks the delay before the height.
verify_packet_data_delay_first(client_state, height, delay_passed, proof_ok) ==
    IF ~delay_passed THEN Verified("DelayNotPassed")
    ELSE IF verify_height(client_state, height) # ""
    THEN Verified(verify_height(client_state, height))
    ELSE IF ~proof_ok THEN Verified("InvalidProof") ELSE Verified("")

verify_packet_data(client_state, height, delay_passed, proof_ok) ==
    IF verify_height(client_state, height) # ""
    THEN Verified(verify_height(client_state, height))
    ELSE IF ~delay_passed THEN Verified("DelayNotPassed")
    ELSE IF ~proof_ok THEN Verified("InvalidProof") ELSE Verified("")

verify_packet_acknowledgement(client_state, height, delay_passed, proof_ok) ==
    IF verify_height(client_state, height) # ""
    THEN Verified(verify_height(client_state, height))
    ELSE IF ~delay_passed THEN Verified("DelayNotPassed")
    ELSE IF ~proof_ok THEN Verified("InvalidProof") ELSE Verified("")

verify_next_sequence_recv(client_state, height, delay_passed, proof_ok) ==
    IF verify_height(client_state, height) # ""
    THEN Verified(verify_height(client_state, height))
    ELSE IF ~delay_passed THEN Verified("DelayNotPassed")
    ELSE IF ~proof_ok THEN Verified("InvalidProof") ELSE Verified("")

\* proof_ok is here the outcome of verify_non_membership.
verify_packet_receipt_absence(client_state, height, delay_passed, proof_ok) ==
    IF verify_height(client_state, height) # ""
    THEN Verified(verify_height(client_state, height))
    ELSE IF ~delay_passed THEN Verified("DelayNotPassed")
    ELSE IF ~proof_ok THEN Verified("InvalidProof") ELSE Verified("")

MembershipChecks ==
    {"verify_client_consensus_state", "verify_connection_state",
     "verify_channel_state", "verify_client_full_state", "verify_packet_data",
     "verify_packet_acknowledgement", "verify_next_sequence_recv",
     "verify_packet_receipt_absence"}

\* The call of one of the eight by name.
verify(check, client_state, height, delay_passed, proof_ok) ==
    CASE check = "verify_client_consensus_state" ->
            verify_client_consensus_state(client_state, height, proof_ok)
      [] check = "verify_connection_state" ->
            verify_connection_state(client_state, height, proof_ok)
      [] check = "verify_channel_state" ->
            verify_channel_state(client_state, height, proof_ok)
      [] check = "verify_client_full_state" ->
            verify_client_full_state(client_state, height, proof_ok)
      [] check = "verify_packet_data" ->
            verify_packet_data(client_state, height, delay_passed, proof_ok)
      [] check = "verify_packet_acknowledgement" ->
            verify_packet_acknowledgement(client_state, height, delay_passed, proof_ok)
      [] check = "verify_next_sequence_recv" ->
            verify_next_sequence_recv(client_state, height, delay_passed, proof_ok)
      [] check = "verify_packet_receipt_absence" ->
            verify_packet_receipt_absence(client_state, height, delay_passed, proof_ok)

\* ------------------------------------------------------------- messages

\* block and up to n - 1 of its ancestors: a batch of unknown headers.
RECURSIVE ChainBack(_, _)
ChainBack(block, n) ==
    IF n = 0 \/ block \notin Hashes THEN {}
    ELSE {block} \cup ChainBack(RelayHeaders[block].parent_hash, n - 1)

\* A GRANDPA justification, as far as verification reads it: the block its
\* commit targets, and the set id and authority set whose precommits it
\* carries.  None stands for bytes that do not decode.
Justification(target_hash, set_id, authorities) ==
    [target_hash |-> target_hash, set_id |-> set_id, authorities |-> authorities]

\* FinalityProof { block, justification, unknown_headers }
FinalityProof(block, justification, unknown_headers) ==
    [block |-> block, justification |-> justification,
     unknown_headers |-> unknown_headers]

HeaderBatches ==
    {<<b, ChainBack(b, n)>> : b \in Hashes, n \in 0..MaxUnknownHeaders}

\* The parachain header proofs of a message: valid proofs keyed by some of
\* the headers of the batch, a proof for every header of which one is
\* invalid, or one proof keyed by a header that is not in the batch.
ProofMaps(unknown_headers) ==
    {[k \in K |-> "valid"] : K \in SUBSET unknown_headers}
    \cup {[k \in unknown_headers |-> IF k = bad THEN "invalid" ELSE "valid"] :
            bad \in unknown_headers}
    \cup {[k \in {o} |-> "valid"] : o \in {"a2"} \ unknown_headers}

\* ClientMessage::Header
Header(height, finality_proof, parachain_headers) ==
    [type |-> "Header", height |-> height, finality_proof |-> finality_proof,
     parachain_headers |-> parachain_headers]

\* The Header messages tried on a client state: every batch, with a
\* justification of its block by the first authority set.  A message whose
\* headers do not lead from block back to latest_relay_hash fails before
\* its proofs are read, so one such message stands for all with the same
\* headers.
HeaderMessages(client_state) ==
    UNION {{Header(Height(1, RelayHeaders[f[1]].para_head.number),
                   FinalityProof(f[1], Some(Justification(f[1], 0, "G0")), f[2]),
                   pm) :
              pm \in IF IsSome(ancestry(f[2], client_state.latest_relay_hash, f[1]))
                     THEN ProofMaps(f[2])
                     ELSE {[k \in {} |-> "valid"]}} :
           f \in HeaderBatches}

\* ---------------------------------------------------------------- state

VARIABLES
    stored_client_state,      \* the client state the host stores
    stored_consensus_states,  \* the host's consensus states, by Height
    relay_header_hashes,      \* the host's set of known relay header hashes
    host_timestamp,           \* ctx.host_timestamp()
    result                    \* the last call and what it returned

vars == <<stored_client_state, stored_consensus_states, relay_header_hashes,
          host_timestamp, result>>

\* A ledger a client can start with: strictly sorted by height, set ids
\* increasing.
InitLedger(n) ==
    [i \in 1..n |-> AuthoritiesChange(i - 1, 1, i - 1,
                                       IF i = 1 THEN "G0" ELSE "G1")]

InitClientState(anchor, n) ==
    [relay_chain |-> "relay",
     latest_relay_hash |-> anchor,
     latest_relay_height |-> RelayHeaders[anchor].number,
     latest_para_height |-> 1,
     para_id |-> 1,
     frozen_height |-> None,
     authorities_changes |-> InitLedger(n)]

\* What the last step was and what the call returned.
Result(op, ok, error, consensus_states) ==
    [op |-> op, ok |-> ok, error |-> error, consensus_states |-> consensus_states]

NoResult == Result("none", TRUE, "", <<>>)

Init ==
    /\ \E anchor \in {"g", "m"}, n \in 1..MaxInitLedger :
          /\ stored_client_state = InitClientState(anchor, n)
          /\ relay_header_hashes = {anchor}
    /\ stored_consensus_states = [h \in {Height(1, 1)} |-> "r1"]
    /\ host_timestamp = 1
    /\ result = NoResult

\* An insertion of the target's hash alone.
insert_relay_header_hashes_target(known, finalized) ==
    IF finalized = <<>> THEN known ELSE known \cup {finalized[1]}

\* H::insert_relay_header_hashes(now_ms, &finalized) on the host's set.
insert_relay_header_hashes(known, finalized) == known \cup Range(finalized)

\* A host that stores only the first pair of a batch.
store_batch_first(stored, batch) ==
    IF batch = <<>> THEN stored
    ELSE [h \in DOMAIN stored \cup {Head(batch)[1]} |->
             IF h = Head(batch)[1] THEN Head(batch)[2] ELSE stored[h]]

\* ctx.store_consensus_state for every pair of a batch, in order.
RECURSIVE store_batch(_, _)
store_batch(stored, batch) ==
    IF batch = <<>> THEN stored
    ELSE LET height == Head(batch)[1]
             state == Head(batch)[2]
         IN  store_batch([h \in DOMAIN stored \cup {height} |->
                              IF h = height THEN state ELSE stored[h]],
                         Tail(batch))

\* The builds to tell apart on a message: with and without overflow checks
\* when a sum of the call can leave the u32 range, one build otherwise.
OverflowModes(client_state, unknown_headers) ==
    IF \/ client_state.latest_relay_height + Cardinality(unknown_headers) + 1 > U32Max
       \/ \E h \in unknown_headers :
             RelayHeaders[h].number + RelayHeaders[h].digest.delay + 1 > U32Max
    THEN BOOLEAN ELSE {FALSE}

\* The Header messages update_state is called with.  A message whose headers
\* do not lead from block back to latest_relay_hash is rejected at the first
\* step whatever else it holds: the message for w2 without headers stands
\* for all of them.
UpdateMessages(client_state) ==
    {msg \in HeaderMessages(client_state) :
        \/ /\ msg.finality_proof.unknown_headers = {}
           /\ msg.finality_proof.block \in {client_state.latest_relay_hash, "w2"}
        \/ IsSome(ancestry(msg.finality_proof.unknown_headers,
                           client_state.latest_relay_hash, msg.finality_proof.block))}

\* The host calls update_state and, when it succeeds, stores the returned
\* client state and consensus states; update_state itself inserts into the
\* known set the finalized hashes it has come to insert.
UpdateState ==
    \E msg \in UpdateMessages(stored_client_state) :
    \E overflow_checks \in OverflowModes(stored_client_state,
                                         msg.finality_proof.unknown_headers) :
    \E r \in {update_state(stored_client_state, msg, stored_consensus_states,
                           host_timestamp, overflow_checks)} :
            /\ result' = Result("update_state", r.ok, r.error, r.consensus_states)
            /\ relay_header_hashes' =
                  insert_relay_header_hashes(relay_header_hashes, r.finalized)
            /\ IF r.ok
               THEN /\ stored_client_state' = r.client_state
                    /\ stored_consensus_states' =
                          store_batch(stored_consensus_states, r.consensus_states)
               ELSE UNCHANGED <<stored_client_state, stored_consensus_states>>
            /\ UNCHANGED host_timestamp

\* The host's clock advances.
Tick ==
    /\ host_timestamp < TimestampMax
    /\ host_timestamp' = host_timestamp + 1
    /\ result' = Result("tick", TRUE, "", <<>>)
    /\ UNCHANGED <<stored_client_state, stored_consensus_states,
                   relay_header_hashes>>

\* update_state_on_misbehaviour is called and the host stores the client
\* state it returns.
UpdateStateOnMisbehaviour ==
    /\ stored_client_state' = update_state_on_misbehaviour(stored_client_state)
    /\ result' = Result("update_state_on_misbehaviour", TRUE, "", <<>>)
    /\ UNCHANGED <<stored_consensus_states, relay_header_hashes, host_timestamp>>

\* The client states offered as upgrades: one ahead of every client of the
\* model on another relay chain name and frozen, and one that is not ahead
\* of any.
UpgradeClientState(latest_para_height) ==
    [relay_chain |-> "upgraded",
     latest_relay_hash |-> "a3",
     latest_relay_height |-> RelayHeaders["a3"].number,
     latest_para_height |-> latest_para_height,
     para_id |-> 1,
     frozen_height |-> Some(Height(1, 1)),
     authorities_changes |-> <<AuthoritiesChange(0, 1, 0, "G0")>>]

UpgradeClientStates == {UpgradeClientState(1), UpgradeClientState(5)}

\* The proofs offered for an encoded state: bytes that do not decode, a proof
\* against another root, a proof of no value, and proofs under the right
\* root of the encoded state itself and of an Any that holds it.
UpgradeProofs(root, encoded) ==
    {None,
     Some(StorageProof("other", Some(<<"Any", "Wrapped", encoded>>))),
     Some(StorageProof(root, None)),
     Some(StorageProof(root, Some(encoded))),
     Some(StorageProof(root, Some(<<"Any", "Wrapped", encoded>>)))}

\* The pairs of proofs offered for an upgrade of old_client_state.  A call
\* returns at the first check that fails, so one proof stands for all where
\* the call does not come to read it: both proofs when the upgrade is not
\* ahead, the consensus proof when the client proof fails.
UpgradeProofPairs(old_client_state, root, upgrade_client_state, upgrade_consensus_state) ==
    LET client_encoded == encode_to_vec("ClientState", upgrade_client_state)
        consensus_encoded == encode_to_vec("ConsensusState", upgrade_consensus_state)
    IN  IF HeightLeq(latest_height(upgrade_client_state), latest_height(old_client_state))
        THEN {<<None, None>>}
        ELSE {p \in UpgradeProofs(root, client_encoded)
                      \X UpgradeProofs(root, consensus_encoded) :
                verify_upgrade_proof(root, p[1], client_encoded) # "" => p[2] = None}

\* The host calls verify_upgrade_and_update_state and, when it succeeds,
\* stores the client state and, at its latest height, the consensus state.
VerifyUpgradeAndUpdateState ==
    \E upgrade_client_state \in UpgradeClientStates :
    \E root \in {IF latest_height(stored_client_state) \in DOMAIN stored_consensus_states
                 THEN stored_consensus_states[latest_height(stored_client_state)]
                 ELSE "none"} :
    \E proofs \in UpgradeProofPairs(stored_client_state, root,
                                     upgrade_client_state, "u") :
    \E r \in {verify_upgrade_and_update_state(stored_client_state,
                  upgrade_client_state, "u", proofs[1], proofs[2],
                  stored_consensus_states)} :
        /\ result' = Result("verify_upgrade_and_update_state", r.ok, r.error, <<>>)
        /\ IF r.ok
           THEN /\ stored_client_state' = r.client_state
                /\ stored_consensus_states' =
                      store_batch(stored_consensus_states,
                          <<<<latest_height(r.client_state), Unwrap(r.consensus_state)>>>>)
           ELSE UNCHANGED <<stored_client_state, stored_consensus_states>>
        /\ UNCHANGED <<relay_header_hashes, host_timestamp>>

Next ==
    \/ UpdateState
    \/ UpdateStateOnMisbehaviour
    \/ VerifyUpgradeAndUpdateState
    \/ Tick

Spec == Init /\ [][Next]_vars

\* ----------------------------------------------- single calls on a client

\* A second specification: a client that a run of updates has produced, on
\* which one verification or inspection is called with inputs drawn from
\* bounded sets, before or after update_state_on_misbehaviour.

\* ClientMessage::Misbehaviour
Misbehaviour(first_finality_proof, second_finality_proof) ==
    [type |-> "Misbehaviour", first_finality_proof |-> first_finality_proof,
     second_finality_proof |-> second_finality_proof]

\* The justifications offered for a block: bytes that do not decode, commits
\* for the block by the first and by the second authority set, and a commit
\* by the first set for another block.
Justifications(block) ==
    {None, Some(Justification(block, 0, "G0")), Some(Justification(block, 1, "A")),
     Some(Justification("g", 0, "G0"))}

\* The finality proofs of the misbehaviour messages: a block with itself and
\* up to MaxUnknownHeaders - 1 ancestors, a proof without headers, and a
\* proof whose block is not the highest of its headers.
MisbehaviourProofs ==
    UNION {{FinalityProof(b, j, ChainBack(b, n)) :
               n \in 1..MaxUnknownHeaders, j \in Justifications(b)} :
           b \in {"a2", "a3", "b2", "b3", "w2", "m1", "m2", "n1"}}
    \cup {FinalityProof("a2", Some(Justification("a2", 0, "G0")), {}),
          FinalityProof("a2", Some(Justification("a2", 0, "G0")), {"a2", "a3"})}

Misbehaviours ==
    {Misbehaviour(p[1], p[2]) : p \in MisbehaviourProofs \X MisbehaviourProofs}

\* The host's view of one client.
Config(client_state, consensus_states, known) ==
    [client_state |-> client_state, consensus_states |-> consensus_states,
     known |-> known]

\* The host's view after the update_state calls on msgs, at host time 1.
RECURSIVE Replay(_, _)
Replay(config, msgs) ==
    IF msgs = <<>> THEN config
    ELSE LET r == update_state(config.client_state, Head(msgs),
                               config.consensus_states, 1, FALSE)
         IN  Replay(Config(r.client_state,
                           store_batch(config.consensus_states, r.consensus_states),
                           insert_relay_header_hashes(config.known, r.finalized)),
                    Tail(msgs))

\* Updates along the chain g <- a1 <- a2 <- a3, one header each, with a
\* parachain header proof for a1 and for a3.
ReplayMessages ==
    <<Header(Height(1, 2), FinalityProof("a1", Some(Justification("a1", 0, "G0")),
                                         {"a1"}), [k \in {"a1"} |-> "valid"]),
      Header(Height(1, 2), FinalityProof("a2", Some(Justification("a2", 0, "G0")),
                                         {"a2"}), [k \in {} |-> "valid"]),
      Header(Height(1, 3), FinalityProof("a3", Some(Justification("a3", 1, "A")),
                                         {"a3"}), [k \in {"a3"} |-> "valid"])>>

VerifyConfigs ==
    {Replay(Config(InitClientState("g", 1), [h \in {Height(1, 1)} |-> "r1"], {"g"}),
            SubSeq(ReplayMessages, 1, n)) : n \in 0..Len(ReplayMessages)}
    \cup {Config(InitClientState("m", MaxInitLedger),
                 [h \in {Height(1, 1)} |-> "r1"], {"m"})}

InitVerify ==
    /\ \E config \in VerifyConfigs :
          /\ stored_client_state = config.client_state
          /\ stored_consensus_states = config.consensus_states
          /\ relay_header_hashes = config.known
    /\ host_timestamp = 1
    /\ result = NoResult

\* No call has been made on the client but, at most, the one that froze it.
NotYetCalled == result.op \in {"none", "update_state_on_misbehaviour"}

\* The choices a build's binary search can make: between the first and the
\* last of several entries of one height when the ledger has such entries.
TieModes(authorities_changes) ==
    IF \E i, j \in 1..Len(authorities_changes) :
          i # j /\ authorities_changes[i].height = authorities_changes[j].height
    THEN {"first", "last"} ELSE {"first"}

\* The builds to tell apart on a misbehaviour message.
MisbehaviourOverflowModes(misbehaviour) ==
    IF \E p \in {misbehaviour.first_finality_proof, misbehaviour.second_finality_proof} :
          \E h \in p.unknown_headers :
             RelayHeaders[h].number + Cardinality(p.unknown_headers) > U32Max
    THEN BOOLEAN ELSE {FALSE}

\* verify_client_message is called with a misbehaviour message.
VerifyClientMessage ==
    /\ NotYetCalled
    /\ \E misbehaviour \in Misbehaviours :
       \E tie \in TieModes(stored_client_state.authorities_changes) :
       \E overflow_checks \in MisbehaviourOverflowModes(misbehaviour) :
       \E r \in {verify_misbehaviour(stored_client_state, relay_header_hashes,
                                     misbehaviour, tie, overflow_checks)} :
          result' = [op |-> "verify_client_message", ok |-> r.ok, error |-> r.error,
                     lookups |-> r.lookups, client_message |-> misbehaviour,
                     tie |-> tie, overflow_checks |-> overflow_checks]
    /\ UNCHANGED <<stored_client_state, stored_consensus_states,
                   relay_header_hashes, host_timestamp>>

\* The misbehaviour messages check_for_misbehaviour is called with: every
\* ordered pair of four finality proofs, so each message comes with the
\* message that has its two proofs exchanged.
CheckedMisbehaviours ==
    LET proofs == {FinalityProof("a2", None, {"a2"}),
                   FinalityProof("b2", None, {"b2"}),
                   FinalityProof("a3", Some(Justification("a3", 1, "A")), {"a2", "a3"}),
                   FinalityProof("a2", Some(Justification("a2", 0, "G0")), {})}
    IN  {Misbehaviour(p[1], p[2]) : p \in proofs \X proofs}

\* check_for_misbehaviour is called with a header message or with a
\* misbehaviour message.
CheckForMisbehaviour ==
    /\ NotYetCalled
    /\ \E client_message \in HeaderMessages(stored_client_state) \cup
                                CheckedMisbehaviours :
       \E r \in {check_for_misbehaviour(stored_client_state, client_message,
                                        stored_consensus_states)} :
          result' = [op |-> "check_for_misbehaviour", ok |-> r.ok, error |-> r.error,
                     value |-> r.value, client_message |-> client_message]
    /\ UNCHANGED <<stored_client_state, stored_consensus_states,
                   relay_header_hashes, host_timestamp>>

\* The heights a membership verification is called with.
VerifyHeights ==
    {Height(1, h) : h \in 0..MaxUnknownHeaders + 2} \cup {Height(0, 1), Height(2, 1)}

\* One of the eight membership verifications is called.
VerifyMembership ==
    /\ NotYetCalled
    /\ \E check \in MembershipChecks, height \in VerifyHeights,
          delay_passed \in BOOLEAN, proof_ok \in BOOLEAN :
       \E r \in {verify(check, stored_client_state, height, delay_passed, proof_ok)} :
          result' = [op |-> check, ok |-> r.ok, error |-> r.error, height |-> height,
                     delay_passed |-> delay_passed, proof_ok |-> proof_ok]
    /\ UNCHANGED <<stored_client_state, stored_consensus_states,
                   relay_header_hashes, host_timestamp>>

\* update_state is called once, as in UpdateState; the call's message and
\* build and the host's view before the call are kept with its result.
UpdateStateCall ==
    /\ NotYetCalled
    /\ \E msg \in HeaderMessages(stored_client_state) :
       \E overflow_checks \in OverflowModes(stored_client_state,
                                            msg.finality_proof.unknown_headers) :
       \E r \in {update_state(stored_client_state, msg, stored_consensus_states,
                              host_timestamp, overflow_checks)} :
          /\ result' = [op |-> "update_state", ok |-> r.ok, error |-> r.error,
                        consensus_states |-> r.consensus_states,
                        client_message |-> msg, overflow_checks |-> overflow_checks,
                        before |-> Config(stored_client_state,
                                          stored_consensus_states,
                                          relay_header_hashes)]
          /\ relay_header_hashes' =
                  insert_relay_header_hashes(relay_header_hashes, r.finalized)
          /\ IF r.ok
             THEN /\ stored_client_state' = r.client_state
                  /\ stored_consensus_states' =
                        store_batch(stored_consensus_states, r.consensus_states)
             ELSE UNCHANGED <<stored_client_state, stored_consensus_states>>
    /\ UNCHANGED host_timestamp

\* verify_upgrade_and_update_state is called once, as in
\* VerifyUpgradeAndUpdateState; the call's upgrade client state and the
\* host's view before the call are kept with its result.
VerifyUpgradeCall ==
    /\ NotYetCalled
    /\ \E upgrade_client_state \in UpgradeClientStates :
       \E root \in {IF latest_height(stored_client_state)
                         \in DOMAIN stored_consensus_states
                    THEN stored_consensus_states[latest_height(stored_client_state)]
                    ELSE "none"} :
       \E proofs \in UpgradeProofPairs(stored_client_state, root,
                                        upgrade_client_state, "u") :
       \E r \in {verify_upgrade_and_update_state(stored_client_state,
                     upgrade_client_state, "u", proofs[1], proofs[2],
                     stored_consensus_states)} :
          /\ result' = [op |-> "verify_upgrade_and_update_state", ok |-> r.ok,
                        error |-> r.error,
                        upgrade_client_state |-> upgrade_client_state,
                        before |-> Config(stored_client_state,
                                          stored_consensus_states,
                                          relay_header_hashes)]
          /\ IF r.ok
             THEN /\ stored_client_state' = r.client_state
                  /\ stored_consensus_states' =
                        store_batch(stored_consensus_states,
                            <<<<latest_height(r.client_state),
                                Unwrap(r.consensus_state)>>>>)
             ELSE UNCHANGED <<stored_client_state, stored_consensus_states>>
    /\ UNCHANGED <<relay_header_hashes, host_timestamp>>

\* update_state_on_misbehaviour is called on the client before the one call.
FreezeBeforeCall ==
    /\ result.op = "none"
    /\ UpdateStateOnMisbehaviour

NextVerify ==
    \/ UpdateStateCall
    \/ VerifyUpgradeCall
    \/ VerifyClientMessage
    \/ CheckForMisbehaviour
    \/ VerifyMembership
    \/ FreezeBeforeCall

SpecVerify == InitVerify /\ [][NextVerify]_vars

\* ------------------------------------------- contract wrapper (CosmWasm)

\* A third specification: process_message of icsxx-solana-cw/src/contract.rs
\* executing ExecuteMsg::UpdateState messages.  The client of the contract
\* is another light client; what its update_state returns is an input here.

\* A client state of the contract, as far as the wrapper reads it: its
\* latest height, and data that tells two client states of one height apart.
ContractClientState(latest_height_, data) ==
    [latest_height |-> latest_height_, data |-> data]

ContractHeights ==
    {Height(n, h) : n \in 0..1, h \in 1..MaxRevisionHeight}

\* What client.update_state returns to the wrapper: an error, or a client
\* state with ConsensusUpdateResult::Single(cs) or ::Batch(css).
ClientUpdateOutcomes ==
    {[ok |-> FALSE, client_state |-> None, kind |-> "Error", css |-> <<>>]}
    \cup {[ok |-> TRUE, client_state |-> Some(ContractClientState(h, d)),
            kind |-> "Single", css |-> <<<<h, "s">>>>] :
              h \in ContractHeights, d \in {"d1", "d2"}}
    \cup UNION {{[ok |-> TRUE, client_state |-> Some(ContractClientState(h, "d2")),
                   kind |-> "Batch", css |-> css] :
                     css \in {<<>>, <<<<Height(0, 1), "t">>, <<h, "t">>>>}} :
                h \in ContractHeights}

\* prune_oldest_consensus_state(ctx, &client_state, now): the stored
\* consensus state of least height is removed when it has expired.
prune_oldest_consensus_state(stored, expired) ==
    IF ~expired \/ DOMAIN stored = {} THEN stored
    ELSE LET oldest == CHOOSE h \in DOMAIN stored :
                          \A k \in DOMAIN stored : HeightLeq(h, k)
         IN  [h \in DOMAIN stored \ {oldest} |-> stored[h]]

\* A comparison that also accepts a client state of the same revision height.
revision_height_advances_or_equal(revision_height, latest_revision_height) ==
    revision_height >= latest_revision_height

\* cs.latest_height().revision_height > latest_revision_height
revision_height_advances(revision_height, latest_revision_height) ==
    revision_height > latest_revision_height

\* process_message(ExecuteMsg::UpdateState(msg_raw), client, ctx, client_id):
\* the client state and the consensus states of ctx after the call.  outcome
\* is what client.update_state returns on the message, expired whether the
\* oldest stored consensus state has expired.
process_message(client_state, stored, outcome, expired) ==
    LET latest_revision_height == client_state.latest_height.revision_height
        pruned == prune_oldest_consensus_state(stored, expired)
        cs == Unwrap(outcome.client_state)
        consensus_updates ==
            IF outcome.kind = "Single"
            THEN <<<<cs.latest_height, outcome.css[1][2]>>>>
            ELSE outcome.css
    IN  IF ~outcome.ok
        THEN [ok |-> FALSE, client_state |-> client_state, consensus_states |-> pruned]
        ELSE [ok |-> TRUE,
              client_state |->
                  IF revision_height_advances(cs.latest_height.revision_height,
                                              latest_revision_height)
                  THEN cs ELSE client_state,
              consensus_states |-> store_batch(pruned, consensus_updates)]

InitContract ==
    /\ \E h \in {Height(0, 1), Height(0, 2), Height(1, 1)} :
          /\ stored_client_state = ContractClientState(h, "d1")
          /\ stored_consensus_states = [k \in {h} |-> "s"]
    /\ relay_header_hashes = {}
    /\ host_timestamp = 1
    /\ result = NoResult

\* The contract executes one ExecuteMsg::UpdateState.
ExecuteUpdateState ==
    /\ \E outcome \in ClientUpdateOutcomes, expired \in BOOLEAN :
       \E r \in {process_message(stored_client_state, stored_consensus_states,
                                 outcome, expired)} :
          /\ stored_client_state' = r.client_state
          /\ stored_consensus_states' = r.consensus_states
          /\ result' = [op |-> "ExecuteMsg::UpdateState", ok |-> r.ok,
                        outcome |-> outcome]
    /\ UNCHANGED <<relay_header_hashes, host_timestamp>>

NextContract == ExecuteUpdateState

SpecContract == InitContract /\ [][NextContract]_vars

\* ---------------------------------------------------------------- claims

Ledger == stored_client_state.authorities_changes

\* A step that is a successful update_state call.
UpdateSucceeds == result'.op = "update_state" /\ result'.ok

\* C1: over successful update_state calls latest_relay_height and
\* latest_para_height never decrease, and latest_para_height strictly
\* increases in every call that emits at least one new consensus state.
C1_NoRewind ==
    [][UpdateSucceeds =>
        /\ stored_client_state'.latest_relay_height
              >= stored_client_state.latest_relay_height
        /\ stored_client_state'.latest_para_height
              >= stored_client_state.latest_para_height
        /\ (result'.consensus_states # <<>> =>
              stored_client_state'.latest_para_height
                 > stored_client_state.latest_para_height)]_vars

\* An update has emitted two consensus states and moved both heights.
C1_Witness ==
    /\ result.op = "update_state" /\ result.ok
    /\ Len(result.consensus_states) = 2
    /\ stored_client_state.latest_para_height = 3
    /\ stored_client_state.latest_relay_hash = "a3"

\* C6: after successful update_state calls the ledger is strictly sorted by
\* height and set_id strictly increases along it.
C6_StrictLedger ==
    \A i \in 1..Len(Ledger) - 1 :
        /\ Ledger[i].height < Ledger[i + 1].height
        /\ Ledger[i].set_id < Ledger[i + 1].set_id

\* C7: over successful update_state calls a ledger that holds MIN_COUNT
\* entries keeps at least MIN_COUNT, and an update that inserts a scheduled
\* change into a ledger of n entries leaves at least min(n + 1, MIN_COUNT).
C7_MinRetention ==
    [][UpdateSucceeds =>
        /\ (Len(Ledger) >= AUTHORITIES_CHANGE_ITEM_MIN_COUNT =>
              Len(Ledger') >= AUTHORITIES_CHANGE_ITEM_MIN_COUNT)
        /\ (Ledger' # Ledger =>
              Len(Ledger') >= Min(Len(Ledger) + 1, AUTHORITIES_CHANGE_ITEM_MIN_COUNT))
      ]_vars

\* An update has pruned: the ledger is at the floor although more entries
\* were inserted than it holds.
C7_Witness ==
    /\ result.op = "update_state" /\ result.ok
    /\ Len(Ledger) = AUTHORITIES_CHANGE_ITEM_MIN_COUNT
    /\ last_set_id(Ledger) >= AUTHORITIES_CHANGE_ITEM_MIN_COUNT + 1

\* C8: an entry whose timestamp + LIFETIME overflows is kept by the pruning
\* of update_state.
C8_OverflowKept ==
    [][(UpdateSucceeds /\ Ledger' # Ledger) =>
        \A i \in 1..Len(Ledger) :
            ~IsSome(timestamp_add(Ledger[i].timestamp, AUTHORITIES_CHANGE_ITEM_LIFETIME))
            => \E j \in 1..Len(Ledger') : Ledger'[j] = Ledger[i]]_vars

\* C2: on a frozen client update_state returns an error.
C2_FrozenRejectsUpdate ==
    (result.op = "update_state" /\ IsSome(stored_client_state.frozen_height))
        => ~result.ok

\* C3: a frozen client stays frozen through every update_state and
\* update_state_on_misbehaviour call, and a step that leaves a frozen client
\* with frozen_height = None is a verify_upgrade_and_update_state call.
C3_OnlyUpgradeUnfreezes ==
    [][IsSome(stored_client_state.frozen_height) =>
        /\ (result'.op \in {"update_state", "update_state_on_misbehaviour"} =>
              IsSome(stored_client_state'.frozen_height))
        /\ (~IsSome(stored_client_state'.frozen_height) =>
              result'.op = "verify_upgrade_and_update_state" /\ result'.ok)]_vars

\* A client frozen at an earlier height has taken an update and is still
\* frozen.
C3_Witness ==
    /\ result.op = "update_state" /\ result.ok
    /\ IsSome(stored_client_state.frozen_height)
    /\ HeightLess(Unwrap(stored_client_state.frozen_height),
                  latest_height(stored_client_state))

\* C4: on a client that update_state_on_misbehaviour has frozen, each of
\* the eight membership verifications called with a height at or above the
\* frozen height fails, and with the error of verify_height whatever the
\* outcomes of the delay check and of the proof check would be.
C4_FrozenFailsAtVerifyHeight ==
    (/\ result.op \in MembershipChecks
     /\ IsSome(stored_client_state.frozen_height)
     /\ HeightLeq(Unwrap(stored_client_state.frozen_height), result.height))
        => /\ ~result.ok
           /\ result.error \in {"FrozenClient", "InsufficientHeight"}

\* verify_packet_data at the frozen height, with a delay that has not passed
\* and a proof that does not verify, has failed as frozen.
C4_Witness ==
    /\ result.op = "verify_packet_data"
    /\ stored_client_state.frozen_height = Some(result.height)
    /\ ~result.delay_passed /\ ~result.proof_ok
    /\ result.error = "FrozenClient"

\* C5: every authority lookup of verify_client_message returns the ledger
\* entry of greatest height <= the queried height and, only when no entry
\* has such a height, the last entry.
C5_GreatestAtOrBelow ==
    result.op = "verify_client_message" =>
        \A l \in result.lookups :
            IF \E i \in 1..Len(Ledger) : Ledger[i].height <= l.height
            THEN /\ l.change.height <= l.height
                 /\ \A i \in 1..Len(Ledger) :
                       Ledger[i].height <= l.height
                          => Ledger[i].height <= l.change.height
            ELSE l.change = Ledger[Len(Ledger)]

\* C9: check_for_misbehaviour returns true for every Header message of which
\* some header of finality_proof.unknown_headers holds a forced change.
C9_ForcedChangeIsMisbehaviour ==
    (/\ result.op = "check_for_misbehaviour"
     /\ result.client_message.type = "Header"
     /\ \E h \in result.client_message.finality_proof.unknown_headers :
           IsSome(find_forced_change(RelayHeaders[h])))
        => result.ok /\ result.value

\* C10: verify_client_message rejects a misbehaviour message whose two
\* finalized paths lie on one chain, the one a part of the other.
C10_NonForkingRejected ==
    (/\ result.op = "verify_client_message"
     /\ LET first_proof == result.client_message.first_finality_proof
            second_proof == result.client_message.second_finality_proof
        IN  /\ first_proof.unknown_headers # {}
            /\ second_proof.unknown_headers # {}
            /\ first_proof.block # second_proof.block
            /\ first_proof.unknown_headers = ChainBack(first_proof.block,
                   Cardinality(first_proof.unknown_headers))
            /\ second_proof.unknown_headers = ChainBack(second_proof.block,
                   Cardinality(second_proof.unknown_headers))
            /\ \/ first_proof.unknown_headers \subseteq second_proof.unknown_headers
               \/ second_proof.unknown_headers \subseteq first_proof.unknown_headers)
        => ~result.ok

\* C11: update_state on a Header that leads back to latest_relay_hash and
\* whose target's number is at or below latest_relay_height returns the
\* no-rewind error of the relay chain.
C11_RewindRejected ==
    (/\ result.op = "update_state"
     /\ result.error # "Panic"
     /\ result.client_message.parachain_headers = <<>>
     /\ LET proof == result.client_message.finality_proof
        IN  /\ proof.block \in proof.unknown_headers
            /\ IsSome(ancestry(proof.unknown_headers,
                               result.before.client_state.latest_relay_hash,
                               proof.block))
            /\ RelayHeaders[proof.block].number
                  <= result.before.client_state.latest_relay_height)
        => ~result.ok /\ result.error = "RelayHeightRegression"

\* C12: a successful update_state along a finalized path in which a header
\* between latest_relay_hash and the target schedules a change with delay 0,
\* and the target schedules none, grows the ledger by exactly one entry, of
\* height target.number + 1 and set_id one above the last set_id before.
C12_MiddleChangeInserted ==
    (/\ result.op = "update_state" /\ result.ok
     /\ LET proof == result.client_message.finality_proof
            finalized == Unwrap(ancestry(proof.unknown_headers,
                             result.before.client_state.latest_relay_hash,
                             proof.block))
        IN  /\ ~IsSome(find_scheduled_change(RelayHeaders[proof.block]))
            /\ \E i \in 2..Len(finalized) - 1 :
                  /\ IsSome(find_scheduled_change(RelayHeaders[finalized[i]]))
                  /\ RelayHeaders[finalized[i]].digest.delay = 0)
        => /\ Len(Ledger) = Len(result.before.client_state.authorities_changes) + 1
           /\ \E i \in 1..Len(Ledger) :
                 /\ Ledger[i].height
                       = RelayHeaders[result.client_message.finality_proof.block].number + 1
                 /\ Ledger[i].set_id
                       = last_set_id(result.before.client_state.authorities_changes) + 1

\* C13: a parachain header proof of an update_state call that derives a
\* height at which the host already stores a consensus state emits no
\* consensus state for that height and does not change the outcome of the
\* call: the call returns what it returns without that proof, also when the
\* height is at or below latest_para_height.
C13_DuplicateSkipped ==
    result.op = "update_state" =>
        LET msg == result.client_message
            before == result.before
            finalized == ancestry(msg.finality_proof.unknown_headers,
                                  before.client_state.latest_relay_hash,
                                  msg.finality_proof.block)
        IN  \A k \in DOMAIN msg.parachain_headers :
               (/\ IsSome(finalized) /\ k \in Range(Unwrap(finalized))
                /\ k \in msg.finality_proof.unknown_headers
                /\ msg.parachain_headers[k] = "valid"
                /\ Height(1, RelayHeaders[k].para_head.number)
                      \in DOMAIN before.consensus_states)
               => LET without ==
                         [msg EXCEPT !.parachain_headers =
                             [j \in DOMAIN msg.parachain_headers \ {k} |->
                                 msg.parachain_headers[j]]]
                      r == update_state(before.client_state, without,
                                        before.consensus_states, host_timestamp,
                                        result.overflow_checks)
                  IN  /\ result.ok = r.ok /\ result.error = r.error
                      /\ result.consensus_states = r.consensus_states
                      /\ \A i \in 1..Len(result.consensus_states) :
                            result.consensus_states[i][1]
                               # Height(1, RelayHeaders[k].para_head.number)

\* An update from a1 with proofs for a2, whose parachain head is the stored
\* one at latest_para_height, and for a3 has succeeded and emitted only the
\* consensus state of a3.
C13_Witness ==
    /\ result.op = "update_state" /\ result.ok
    /\ result.before.client_state.latest_relay_hash = "a1"
    /\ result.before.client_state.latest_para_height = 2
    /\ result.client_message.parachain_headers
          = [k \in {"a2", "a3"} |-> "valid"]
    /\ result.consensus_states = <<<<Height(1, 3), "r3">>>>

\* C14: for a Header message of which every parachain header proof is keyed
\* by a header of the message without a forced change and derives a
\* consensus state, check_for_misbehaviour returns true exactly when the
\* host stores, at the height of some derived pair, a consensus state other
\* than the derived one.
C14_ConflictIffStoredDiffers ==
    (/\ result.op = "check_for_misbehaviour"
     /\ result.client_message.type = "Header"
     /\ \A k \in DOMAIN result.client_message.parachain_headers :
           /\ k \in result.client_message.finality_proof.unknown_headers
           /\ ~IsSome(find_forced_change(RelayHeaders[k]))
           /\ result.client_message.parachain_headers[k] = "valid")
        => /\ result.ok
           /\ result.value <=>
                 \E k \in DOMAIN result.client_message.parachain_headers :
                    LET height == Height(stored_client_state.para_id,
                                         RelayHeaders[k].para_head.number)
                    IN  /\ height \in DOMAIN stored_consensus_states
                        /\ stored_consensus_states[height]
                              # RelayHeaders[k].para_head.root

\* A header message whose one proof, keyed by b3, derives at the stored
\* height 2 another consensus state than the stored one has been found to
\* be misbehaviour.
C14_Witness ==
    /\ result.op = "check_for_misbehaviour" /\ result.ok /\ result.value
    /\ result.client_message.type = "Header"
    /\ result.client_message.parachain_headers = [k \in {"b3"} |-> "valid"]
    /\ stored_consensus_states[Height(1, 2)] = "r2"

\* C15: the client state a successful verify_upgrade_and_update_state
\* returns has a latest_height above the old client state's and no
\* frozen_height, whether or not the old client state was frozen.
C15_UpgradeAheadAndUnfrozen ==
    (result.op = "verify_upgrade_and_update_state" /\ result.ok)
        => /\ HeightLess(latest_height(result.before.client_state),
                         latest_height(stored_client_state))
           /\ stored_client_state.frozen_height = None

\* A frozen client has been upgraded.
C15_Witness ==
    /\ result.op = "verify_upgrade_and_update_state" /\ result.ok
    /\ IsSome(result.before.client_state.frozen_height)
    /\ IsSome(result.upgrade_client_state.frozen_height)

\* C16: a verify_client_message, update_state or
\* verify_upgrade_and_update_state call that returns an error leaves the
\* client state, the stored consensus states and the known relay header
\* hashes as they were.
C16_ErrorMutatesNothing ==
    [][(/\ result'.op \in {"verify_client_message", "update_state",
                           "verify_upgrade_and_update_state"}
        /\ ~result'.ok)
        => UNCHANGED <<stored_client_state, stored_consensus_states,
                       relay_header_hashes>>]_vars

\* An upgrade whose client state proof holds another value than the encoded
\* upgrade client state has been rejected.
C16_Witness ==
    /\ result.op = "verify_upgrade_and_update_state"
    /\ result.error = "ValuesNotEqual"
    /\ stored_client_state = result.before.client_state
    /\ stored_consensus_states = result.before.consensus_states

\* C17: update_state_on_misbehaviour returns its client state with
\* frozen_height = (para_id, latest_para_height) and nothing else changed,
\* and returns its own result unchanged.
C17_FreezeFrame ==
    [][result'.op = "update_state_on_misbehaviour" =>
        /\ stored_client_state' =
              [relay_chain |-> stored_client_state.relay_chain,
               latest_relay_hash |-> stored_client_state.latest_relay_hash,
               latest_relay_height |-> stored_client_state.latest_relay_height,
               latest_para_height |-> stored_client_state.latest_para_height,
               para_id |-> stored_client_state.para_id,
               frozen_height |-> Some(Height(stored_client_state.para_id,
                                             stored_client_state.latest_para_height)),
               authorities_changes |-> stored_client_state.authorities_changes]
        /\ update_state_on_misbehaviour(stored_client_state') = stored_client_state'
      ]_vars

\* A client updated to relay block b2 and parachain height 3 has been frozen
\* at that height.
C17_Witness ==
    /\ result.op = "update_state_on_misbehaviour"
    /\ stored_client_state.latest_para_height = 3
    /\ stored_client_state.frozen_height = Some(Height(1, 3))
    /\ stored_client_state.latest_relay_hash = "b2"

\* C18: check_for_misbehaviour returns true for a misbehaviour message
\* exactly when it returns true for the message with the two finality proofs
\* exchanged.
C18_MisbehaviourCheckSymmetric ==
    (result.op = "check_for_misbehaviour" /\ result.client_message.type = "Misbehaviour") =>
        LET exchanged == Misbehaviour(result.client_message.second_finality_proof,
                                      result.client_message.first_finality_proof)
            r == check_for_misbehaviour(stored_client_state, exchanged,
                                        stored_consensus_states)
        IN  (result.ok /\ result.value) <=> (r.ok /\ r.value)

\* The check has returned true for a message whose two proofs are for
\* different blocks, the first for the higher one.
C18_Witness ==
    /\ result.op = "check_for_misbehaviour"
    /\ result.client_message.type = "Misbehaviour"
    /\ result.client_message.first_finality_proof.block = "a3"
    /\ result.client_message.second_finality_proof.block = "b2"
    /\ result.ok /\ result.value

\* The parachain heights the host has a consensus state of the client for.
StoredParaHeights ==
    {h.revision_height :
        h \in {x \in DOMAIN stored_consensus_states :
                  x.revision_number = stored_client_state.para_id}}

\* latest_para_height is the highest parachain height with a stored
\* consensus state.
LatestIsHighestStored ==
    /\ stored_client_state.latest_para_height \in StoredParaHeights
    /\ \A h \in StoredParaHeights : h <= stored_client_state.latest_para_height

\* C19: a successful update_state call whose batch the host stores, made
\* where latest_para_height is the highest stored parachain height, leaves
\* latest_para_height the highest stored parachain height.
C19_LatestTracksStored ==
    [][(UpdateSucceeds /\ LatestIsHighestStored) => LatestIsHighestStored']_vars

\* A batch of two states has been stored on top of heights 1 and 2, and
\* latest_para_height is the higher of the two new heights.
C19_Witness ==
    /\ result.op = "update_state" /\ result.ok
    /\ Len(result.consensus_states) = 2
    /\ StoredParaHeights = {1, 2, 3, 4}
    /\ stored_client_state.latest_para_height = 4
    /\ LatestIsHighestStored

\* The relay blocks of the finalized path of the last update_state call that
\* come after the latest_relay_hash the call started from.
BlocksAfterLatest ==
    LET before == result.before.client_state
        proof == result.client_message.finality_proof
        finalized == Unwrap(ancestry(proof.unknown_headers, before.latest_relay_hash,
                                     proof.block))
    IN  Range(finalized) \ {before.latest_relay_hash}

\* C20: a successful update_state whose finalized path has k relay blocks
\* after latest_relay_hash sets latest_relay_hash to finality_proof.block and
\* advances latest_relay_height by exactly k, and the target's number is
\* latest_relay_height + finalized.len() - 1.
C20_AdvancesByPathLength ==
    (result.op = "update_state" /\ result.ok) =>
        LET before == result.before.client_state
            proof == result.client_message.finality_proof
            finalized == Unwrap(ancestry(proof.unknown_headers,
                                         before.latest_relay_hash, proof.block))
            k == Cardinality(BlocksAfterLatest)
        IN  /\ stored_client_state.latest_relay_hash = proof.block
            /\ stored_client_state.latest_relay_height = before.latest_relay_height + k
            /\ RelayHeaders[proof.block].number
                  = before.latest_relay_height + Len(finalized) - 1

\* An update over the longest path of the model has succeeded and moved the
\* client by as many relay blocks as the path has after its start.
C20_Witness ==
    /\ result.op = "update_state" /\ result.ok
    /\ Cardinality(BlocksAfterLatest) = MaxUnknownHeaders
    /\ stored_client_state.latest_relay_height
          = result.before.client_state.latest_relay_height + MaxUnknownHeaders

\* The target header of the update_state call a step made: the header of the
\* block the client was moved to.
UpdateTarget == RelayHeaders[stored_client_state'.latest_relay_hash]

\* C21: a successful update_state changes the ledger exactly when the target
\* header holds a scheduled change; the ledger then holds one new entry with
\* height = target.number + delay + 1, set_id = last_set_id() + 1, timestamp
\* = now and the scheduled next_authorities, and every other entry of it was
\* in the ledger before.
C21_LedgerChangesOnScheduledChange ==
    [][UpdateSucceeds =>
        LET scheduled_change == find_scheduled_change(UpdateTarget)
            change == Unwrap(scheduled_change)
            entry == AuthoritiesChange(UpdateTarget.number + change.delay + 1,
                                       host_timestamp, last_set_id(Ledger) + 1,
                                       change.next_authorities)
        IN  /\ (Ledger' # Ledger) <=> IsSome(scheduled_change)
            /\ IsSome(scheduled_change) =>
                  \E i \in 1..Len(Ledger') :
                     /\ Ledger'[i] = entry
                     /\ \A j \in 1..Len(Ledger') \ {i} : Ledger'[j] \in Range(Ledger)
      ]_vars

\* The candidate base numbers of a misbehaviour message whose proofs hold
\* headers: the numbers of the two base headers.
CandidateBaseNumbers(misbehaviour) ==
    {RelayHeaders[min_by_number(p.unknown_headers)].number :
        p \in {misbehaviour.first_finality_proof, misbehaviour.second_finality_proof}}

\* The length of the route of a proof from its base header to its block.
FinalizedLen(proof) ==
    Len(Unwrap(ancestry(proof.unknown_headers, min_by_number(proof.unknown_headers),
                        proof.block)))

\* Both justifications of the message verify against the authority sets the
\* ledger yields for base_number + first len - 1 and base_number + second
\* len - 1.
BothVerifyUnder(base_number, misbehaviour, authorities_changes) ==
    \E tie \in TieModes(authorities_changes) :
       LET first_proof == misbehaviour.first_finality_proof
           second_proof == misbehaviour.second_finality_proof
           first_change == get_authorities(authorities_changes,
                               base_number + FinalizedLen(first_proof) - 1, tie)
           second_change == get_authorities(authorities_changes,
                                base_number + FinalizedLen(second_proof) - 1, tie)
       IN  /\ justification_verify(Unwrap(first_proof.justification),
                                   first_change.set_id, first_change.authorities)
           /\ justification_verify(Unwrap(second_proof.justification),
                                   second_change.set_id, second_change.authorities)

\* The errors verify_client_message returns before it comes to the loop over
\* the candidate base numbers.
EarlyMisbehaviourErrors ==
    {"SameBlock", "EmptyUnknownHeaders", "NotSameChain", "InvalidAncestry",
     "NotSameAncestor", "ChainsShouldDiverge", "UnknownParent",
     "UndecodableJustification", "TargetHashMismatch"}

\* C22: verify_client_message(Misbehaviour) succeeds only if both
\* justifications verify under one candidate base number b against the
\* authority sets for b + first_finalized_len - 1 and b +
\* second_finalized_len - 1; every height it looks up is such a height and
\* not a target header's number; and when no candidate makes both verify it
\* returns the invalid-justification error.
C22_BothVerifyUnderOneBase ==
    (result.op = "verify_client_message"
       /\ result.error \notin EarlyMisbehaviourErrors) =>
        LET misbehaviour == result.client_message
            candidates == CandidateBaseNumbers(misbehaviour)
            lens == {FinalizedLen(misbehaviour.first_finality_proof),
                     FinalizedLen(misbehaviour.second_finality_proof)}
            verified == {b \in candidates : BothVerifyUnder(b, misbehaviour, Ledger)}
        IN  /\ result.ok => verified # {}
            /\ \A lookup \in result.lookups :
                  \E b \in candidates, len \in lens : lookup.height = b + len - 1
            /\ verified = {} => result.error = "InvalidJustification"

\* The updates of ReplayMessages that have produced the client.
ReplayedUpdates ==
    IF stored_client_state.latest_relay_hash = "m" THEN {}
    ELSE {i \in 1..Len(ReplayMessages) :
             RelayHeaders[ReplayMessages[i].finality_proof.block].number
                <= stored_client_state.latest_relay_height}

\* The hashes on the finalized paths of the successful update_state calls
\* that have produced the client, together with the hash the known set held
\* at the start.
EarlierFinalized ==
    (IF stored_client_state.latest_relay_hash = "m" THEN {"m"} ELSE {"g"}) \cup
    UNION {Range(Unwrap(ancestry(
                 ReplayMessages[i].finality_proof.unknown_headers,
                 IF i = 1 THEN "g" ELSE ReplayMessages[i - 1].finality_proof.block,
                 ReplayMessages[i].finality_proof.block))) :
             i \in ReplayedUpdates}

\* The parent hash of the base header of the first proof of the message
\* verify_client_message was called with.
BaseParent ==
    RelayHeaders[min_by_number(
        result.client_message.first_finality_proof.unknown_headers)].parent_hash

\* C23: verify_client_message(Misbehaviour) succeeds only if the parent hash
\* of the proofs' common base is in the known-relay-hash set, which holds
\* only hashes of the finalized paths of earlier successful update_state
\* calls and the hashes it held at the start.
C23_AnchoredToKnownHash ==
    (result.op = "verify_client_message" /\ result.ok) =>
        /\ BaseParent \in relay_header_hashes
        /\ BaseParent \in EarlierFinalized

\* A misbehaviour message anchored at a1 has been accepted by a client whose
\* updates went through a1.
C23_Witness ==
    /\ result.op = "verify_client_message" /\ result.ok
    /\ BaseParent = "a1"
    /\ "a1" \in relay_header_hashes
    /\ "a1" \in EarlierFinalized

\* C24: the ledger of a client is changed only by update_state: every other
\* operation leaves the client with the authorities_changes it had.
C24_OnlyUpdateStateChangesLedger ==
    [][result'.op # "update_state" => Ledger' = Ledger]_vars

\* C24, amended: the ledger is changed by update_state and replaced by a
\* successful verify_upgrade_and_update_state, which returns the
\* authorities_changes of the upgrade client state; every other operation,
\* and a failed upgrade, leaves it as it was.
C24_LedgerChangedByUpdateOrUpgrade ==
    [][/\ result'.op \notin {"update_state", "verify_upgrade_and_update_state"}
            => Ledger' = Ledger
       /\ result'.op = "verify_upgrade_and_update_state"
            => Ledger' = IF result'.ok
                         THEN result'.upgrade_client_state.authorities_changes
                         ELSE Ledger
      ]_vars

\* An upgrade has replaced a ledger of three entries by the one entry of the
\* upgrade client state.
C24_Witness ==
    /\ result.op = "verify_upgrade_and_update_state" /\ result.ok
    /\ Len(result.before.client_state.authorities_changes) = 3
    /\ Ledger = result.upgrade_client_state.authorities_changes
    /\ Len(Ledger) = 1

\* The finalized path of the update_state call a step made: from the
\* block of the message back to the latest_relay_hash before the call.
FinalizedPath ==
    Unwrap(ancestry(result'.client_message.finality_proof.unknown_headers,
                    stored_client_state.latest_relay_hash,
                    result'.client_message.finality_proof.block))

\* C25: the known-relay-hash set changes only at a successful update_state,
\* which adds exactly the hashes of the finalized path, the new
\* latest_relay_hash among them; the other operations leave the set
\* unchanged.
C25_KnownHashesFrame ==
    [][/\ relay_header_hashes' # relay_header_hashes
            => result'.op = "update_state" /\ result'.ok
       /\ (result'.op = "update_state" /\ result'.ok)
            => /\ relay_header_hashes' =
                     relay_header_hashes
                        \cup {FinalizedPath[i] : i \in 1..Len(FinalizedPath)}
               /\ stored_client_state'.latest_relay_hash \in relay_header_hashes'
       /\ result'.op \in {"verify_client_message", "check_for_misbehaviour",
                          "update_state_on_misbehaviour",
                          "verify_upgrade_and_update_state"}
            => relay_header_hashes' = relay_header_hashes
      ]_vars

\* An update over two new blocks has added both to the known set.
C25_Witness ==
    /\ result.op = "update_state" /\ result.ok
    /\ result.before.known = {"g"}
    /\ relay_header_hashes = {"g", "a1", "a2"}
    /\ stored_client_state.latest_relay_hash = "a2"

\* The keys of the parachain header proofs of the last update_state call
\* that lie on its finalized path, and those that do not.
KeysOnPath ==
    LET msg == result.client_message
        finalized == Unwrap(ancestry(msg.finality_proof.unknown_headers,
                                     result.before.client_state.latest_relay_hash,
                                     msg.finality_proof.block))
    IN  {k \in DOMAIN msg.parachain_headers :
            \E i \in 1..Len(finalized) : finalized[i] = k}

KeysOffPath == DOMAIN result.client_message.parachain_headers \ KeysOnPath

\* C26: every consensus state update_state emits is derived from a proof
\* keyed by a relay hash on the finalized path, against that relay header;
\* a proof keyed by a hash outside the path emits nothing.
C26_EmittedFromFinalizedPath ==
    (result.op = "update_state" /\ result.ok) =>
        /\ \A i \in 1..Len(result.consensus_states) :
              \E k \in KeysOnPath :
                 from_header(result.client_message.parachain_headers[k],
                             result.before.client_state.para_id, RelayHeaders[k])
                    = Some(result.consensus_states[i])
        /\ Len(result.consensus_states) <= Cardinality(KeysOnPath)

\* An update has succeeded on a message whose only proof is keyed by a
\* header outside the finalized path, and has emitted nothing.
C26_Witness ==
    /\ result.op = "update_state" /\ result.ok
    /\ KeysOffPath # {}
    /\ result.consensus_states = <<>>

\* C27: the batch one update_state call returns holds at most one entry per
\* parachain height.
C27_OneEntryPerHeight ==
    (result.op = "update_state" /\ result.ok) =>
        \A i, j \in 1..Len(result.consensus_states) :
            result.consensus_states[i][1] = result.consensus_states[j][1] => i = j

\* C28: for one client state, known set and build, verify_client_message
\* succeeds on a misbehaviour message exactly when it succeeds on the
\* message with the two finality proofs exchanged.
C28_VerifySymmetric ==
    result.op = "verify_client_message" =>
        LET exchanged == Misbehaviour(result.client_message.second_finality_proof,
                                      result.client_message.first_finality_proof)
            r == verify_misbehaviour(stored_client_state, relay_header_hashes,
                                     exchanged, result.tie, result.overflow_checks)
        IN  result.ok <=> r.ok

\* C29: the u32 height arithmetic stays in range: an entry update_state
\* appends has a height above the target's number, and the heights
\* latest_relay_height + finalized.len() - 1 of update_state and base_number +
\* finalized_len - 1 of verify_client_message are at most u32::MAX.
C29_HeightsInRange ==
    /\ (result.op = "update_state" /\ result.ok) =>
          \A i \in 1..Len(Ledger) :
             Ledger[i] \notin Range(result.before.client_state.authorities_changes)
                => Ledger[i].height
                      > RelayHeaders[result.client_message.finality_proof.block].number
    /\ (result.op = "update_state"
          /\ result.error \notin {"InvalidAncestry", "MissingHeader", "InvalidProof"}
          /\ result.client_message.finality_proof.block
                \in result.client_message.finality_proof.unknown_headers) =>
          result.before.client_state.latest_relay_height
             + Len(Unwrap(ancestry(result.client_message.finality_proof.unknown_headers,
                                   result.before.client_state.latest_relay_hash,
                                   result.client_message.finality_proof.block))) - 1
             <= U32Max
    /\ (result.op = "verify_client_message"
          /\ result.error \notin EarlyMisbehaviourErrors) =>
          \A b \in CandidateBaseNumbers(result.client_message) :
             \A p \in {result.client_message.first_finality_proof,
                       result.client_message.second_finality_proof} :
                b + FinalizedLen(p) - 1 <= U32Max

\* The revision height of the latest height of the client state the
\* contract stores.
StoredRevisionHeight == stored_client_state.latest_height.revision_height

\* C30: over ExecuteMsg::UpdateState executions of the contract wrapper the
\* stored client state's latest revision height never decreases: a
\* successful update stores every consensus state of the returned result,
\* and stores the new client state only when its latest revision height is
\* strictly greater than that of the stored one.
C30_ContractHeightNeverDecreases ==
    [][result'.op = "ExecuteMsg::UpdateState" =>
        LET outcome == result'.outcome
            cs == Unwrap(outcome.client_state)
            updates == IF outcome.kind = "Single"
                       THEN <<<<cs.latest_height, outcome.css[1][2]>>>>
                       ELSE outcome.css
        IN  /\ StoredRevisionHeight' >= StoredRevisionHeight
            /\ result'.ok =>
                  \A i \in 1..Len(updates) :
                     /\ updates[i][1] \in DOMAIN stored_consensus_states'
                     /\ (\A j \in i + 1..Len(updates) : updates[j][1] # updates[i][1])
                           => stored_consensus_states'[updates[i][1]] = updates[i][2]
            /\ stored_client_state' # stored_client_state =>
                  /\ result'.ok
                  /\ stored_client_state' = cs
                  /\ cs.latest_height.revision_height > StoredRevisionHeight
      ]_vars

\* A successful update has returned a client state of a higher revision
\* number and a lower revision height: its consensus state is stored, the
\* client state is not.
C30_Witness ==
    /\ result.op = "ExecuteMsg::UpdateState" /\ result.ok
    /\ Unwrap(result.outcome.client_state).latest_height = Height(1, 1)
    /\ stored_client_state.latest_height = Height(0, 2)
    /\ Height(1, 1) \in DOMAIN stored_consensus_states

====
